---- MODULE Spec2Model ----
(***************************************************************************)
(* Model of the request execution pipeline of the Intelligent Data SDK:    *)
(*   intelligentdata/client.py  IntelligentDataClient._headers / _request  *)
(*   intelligentdata/auth.py    OAuth2TokenManager.get_token               *)
(*   intelligentdata/exceptions.py  ApiError and its subclasses            *)
(***************************************************************************)
EXTENDS Integers, Sequences, FiniteSets, TLC

(* ------------------------------ bounds --------------------------------- *)
\* the wall clock is advanced between calls only while it is below MaxNow
MaxNow == 2
\* number of logical _request calls one client performs
MaxCalls == 2
\* concurrent callers of get_token and get_token calls they make in total
NumThreads == 2
MaxGets == 3

(* ------------------------- program constants --------------------------- *)
MAX_RETRIES == 3
\* safety margin of get_token, seconds
MARGIN == 30
\* data.get("expires_in", 3600)
DEFAULT_EXPIRES_IN == 3600

(* --------------------------- value domains ----------------------------- *)
None == "None"
Absent == "<absent>"

\* str | None values given to the constructor
ApiKeys == {None, "svm-key"}
ClientIds == {None, "id"}
ClientSecrets == {None, "secret"}

\* Python truthiness of a str | None value
Truthy(s) == s # None /\ s # ""

\* response bodies as they arrive on the wire
Bodies == {"", "{\"message\":\"denied\"}", "{\"isValid\":true}", "[1]", "<html>"}

\* resp.json(): ok = FALSE when json.loads raises JSONDecodeError; is_obj says
\* whether the decoded value is a dict; message is data.get("message")
Json(body) ==
  CASE body = "" -> [ok |-> FALSE, is_obj |-> FALSE, message |-> Absent, value |-> ""]
    [] body = "{\"message\":\"denied\"}" ->
         [ok |-> TRUE, is_obj |-> TRUE, message |-> "denied", value |-> body]
    [] body = "{\"isValid\":true}" ->
         [ok |-> TRUE, is_obj |-> TRUE, message |-> Absent, value |-> body]
    [] body = "[1]" -> [ok |-> TRUE, is_obj |-> FALSE, message |-> Absent, value |-> body]
    [] OTHER -> [ok |-> FALSE, is_obj |-> FALSE, message |-> Absent, value |-> ""]

\* `resp.json() if resp.content else {}`
EmptyDict == [ok |-> TRUE, is_obj |-> TRUE, message |-> Absent, value |-> "{}"]
JsonOrEmpty(body) == IF body # "" THEN Json(body) ELSE EmptyDict

\* Retry-After header texts; Absent when the header is not sent
RetryAfterHeaders == {Absent, "1", "3", "soon"}

\* float(text): ok = FALSE when float() raises ValueError
Float(text) ==
  CASE text = "1" -> [ok |-> TRUE, value |-> 1]
    [] text = "3" -> [ok |-> TRUE, value |-> 3]
    [] OTHER -> [ok |-> FALSE, value |-> 0]

Statuses == {100, 200, 302, 400, 401, 403, 404, 429, 500, 503}

\* what one self._http.request(...) can produce
TransportFailure == [kind |-> "transport", status |-> 0, retry_after |-> Absent, body |-> ""]
Response(s, h, b) == [kind |-> "response", status |-> s, retry_after |-> h, body |-> b]
Outcomes ==
  {TransportFailure}
    \cup {Response(s, Absent, b) : s \in Statuses, b \in Bodies}
    \cup {Response(429, h, "") : h \in RetryAfterHeaders}
NoResp == [kind |-> "none", status |-> 0, retry_after |-> Absent, body |-> ""]

(* ---------------------------- exceptions ------------------------------- *)
\* one shape for every exception object; `at` is the attempt that created it
Exc(type, status_code, message, raw, retry_after, at) ==
  [type |-> type, status_code |-> status_code, message |-> message,
   raw |-> raw, retry_after |-> retry_after, at |-> at]
NoErr == Exc(None, -1, "", "", -1, -1)

\* `self.raw = raw or {}`
RawOrEmpty(raw) == IF raw \in {None, "", "{}"} THEN "{}" ELSE raw

ApiError(status_code, message, raw, at) ==
  Exc("ApiError", status_code, message, RawOrEmpty(raw), -1, at)
AuthenticationError(message, raw, at) ==
  Exc("AuthenticationError", 401, message, RawOrEmpty(raw), -1, at)
RateLimitError(retry_after, raw, at) ==
  Exc("RateLimitError", 429, "Rate limit exceeded", RawOrEmpty(raw), retry_after, at)
\* exceptions of httpx and of the interpreter that _request does not wrap
Foreign(type, at) == Exc(type, -1, "", "", -1, at)

NoResult == [kind |-> "none", value |-> "", exc |-> NoErr]
Returned(v) == [kind |-> "return", value |-> v, exc |-> NoErr]
Raised(e) == [kind |-> "raise", value |-> "", exc |-> e]

(* ---------------------------- token cache ------------------------------ *)
Tokens == {"tokA", "tokB"}
NoCache == [access_token |-> None, expires_at |-> 0]
TokenCache(t, e) == [access_token |-> t, expires_at |-> e]

\* mutant: a token is still used at the edge of the margin
CacheUsableInclusive(c, t) == c # NoCache /\ t <= c.expires_at - MARGIN

\* mutant: the expiry comparison is reversed
CacheUsableReversed(c, t) == c # NoCache /\ t > c.expires_at - MARGIN

\* `self._cache and time.time() < self._cache.expires_at - 30`
CacheUsable(c, t) == c # NoCache /\ t < c.expires_at - MARGIN

\* JSON bodies of the token endpoint: form "garbage" is not JSON
TokenStatuses == {200, 400, 401, 500}
ExpiresIns == {-1, 31}
TokenBody(f, t, e) == [form |-> f, access_token |-> t, expires_in |-> e]
TokenBodies ==
  {TokenBody("garbage", Absent, -1)}
    \cup {TokenBody("object", t, e) : t \in Tokens \cup {Absent}, e \in ExpiresIns}
TokenTransportFailure ==
  [kind |-> "transport", status |-> 0, body |-> TokenBody("garbage", Absent, -1)]
TokenResponse(s, b) == [kind |-> "response", status |-> s, body |-> b]
TokenOutcomes ==
  {TokenTransportFailure} \cup {TokenResponse(s, b) : s \in TokenStatuses, b \in TokenBodies}

\* resp.raise_for_status(): raises unless the status is 2xx
IsSuccess(status) == 200 <= status /\ status <= 299

\* data.get("expires_in", 3600)
ExpiresIn(b) == IF b.expires_in = -1 THEN DEFAULT_EXPIRES_IN ELSE b.expires_in

\* mutant: a non-2xx answer of the token endpoint is retried like a transport
\* failure
GetTokenRetriesStatus(c, t, o, at) ==
  IF CacheUsable(c, t)
  THEN [cache |-> c, posted |-> FALSE, ret |-> Returned(c.access_token)]
  ELSE IF o.kind = "transport" \/ ~IsSuccess(o.status)
  THEN [cache |-> c, posted |-> TRUE, ret |-> Raised(Foreign("TransportError", at))]
  ELSE IF o.body.form # "object"
  THEN [cache |-> c, posted |-> TRUE, ret |-> Raised(Foreign("JSONDecodeError", at))]
  ELSE IF o.body.access_token = Absent
  THEN [cache |-> c, posted |-> TRUE, ret |-> Raised(Foreign("KeyError", at))]
  ELSE [cache |-> TokenCache(o.body.access_token, t + ExpiresIn(o.body)),
        posted |-> TRUE, ret |-> Returned(o.body.access_token)]

\* mutant: the stale cache entry is dropped before the POST
GetTokenDropsCacheFirst(c, t, o, at) ==
  IF CacheUsable(c, t)
  THEN [cache |-> c, posted |-> FALSE, ret |-> Returned(c.access_token)]
  ELSE IF o.kind = "transport"
  THEN [cache |-> NoCache, posted |-> TRUE, ret |-> Raised(Foreign("TransportError", at))]
  ELSE IF ~IsSuccess(o.status)
  THEN [cache |-> NoCache, posted |-> TRUE, ret |-> Raised(Foreign("HTTPStatusError", at))]
  ELSE IF o.body.form # "object"
  THEN [cache |-> NoCache, posted |-> TRUE, ret |-> Raised(Foreign("JSONDecodeError", at))]
  ELSE IF o.body.access_token = Absent
  THEN [cache |-> NoCache, posted |-> TRUE, ret |-> Raised(Foreign("KeyError", at))]
  ELSE [cache |-> TokenCache(o.body.access_token, t + ExpiresIn(o.body)),
        posted |-> TRUE, ret |-> Returned(o.body.access_token)]

\* get_token() on cache c at time t when the token endpoint would answer o:
\* the new cache, whether the endpoint was called, and the returned token or
\* the raised exception
GetToken(c, t, o, at) ==
  IF CacheUsable(c, t)
  THEN [cache |-> c, posted |-> FALSE, ret |-> Returned(c.access_token)]
  ELSE IF o.kind = "transport"
  THEN [cache |-> c, posted |-> TRUE, ret |-> Raised(Foreign("TransportError", at))]
  ELSE IF ~IsSuccess(o.status)
  THEN [cache |-> c, posted |-> TRUE, ret |-> Raised(Foreign("HTTPStatusError", at))]
  ELSE IF o.body.form # "object"
  THEN [cache |-> c, posted |-> TRUE, ret |-> Raised(Foreign("JSONDecodeError", at))]
  ELSE IF o.body.access_token = Absent
  THEN [cache |-> c, posted |-> TRUE, ret |-> Raised(Foreign("KeyError", at))]
  ELSE [cache |-> TokenCache(o.body.access_token, t + ExpiresIn(o.body)),
        posted |-> TRUE, ret |-> Returned(o.body.access_token)]

(* ------------------------------- state --------------------------------- *)
VARIABLES
  api_key,     \* self._api_key
  client_id,   \* constructor argument client_id
  client_secret, \* constructor argument client_secret
  now,         \* time.time(), whole seconds
  cache,       \* OAuth2TokenManager._cache
  pc,          \* position of the caller: "idle", "loop", "send", "done"
  attempt,     \* loop variable of _request; MAX_RETRIES once the loop is over
  last_err,    \* local last_err of _request
  resp,        \* outcome of self._http.request(...) in the current iteration
  headers,     \* value of the latest self._headers()
  result,      \* how the call ended: returned value or raised exception
  log,         \* history: outcome of every finished iteration of the loop
  sleeps,      \* durations passed to time.sleep during the call, in order
  sent,        \* requests sent to the resource endpoint during the call
  tokenPosts,  \* POSTs to the token endpoint during the call
  tok,         \* the latest get_token() call: cache and time before, outcome
  calls,       \* logical calls started so far
  threads,     \* concurrent get_token() callers: position and locals of each
  ser          \* _serialize: the request given and the dict produced

vars == <<api_key, client_id, client_secret, now, cache, pc, attempt, last_err,
          resp, headers, result, log, sleeps, sent, tokenPosts, tok, calls,
          threads, ser>>

config == <<api_key, client_id, client_secret>>

\* the variables of one _request call and of the client's clock and cache
callVars == <<now, cache, pc, attempt, last_err, resp, headers, result, log,
              sleeps, sent, tokenPosts, tok, calls>>

\* the variables the request pipeline does not touch
aux == <<threads, ser>>

\* mutant: the token manager is created from the client id alone
OAuthFromIdOnly == Truthy(client_id)

\* `if client_id and client_secret: self._oauth = OAuth2TokenManager(...)`
oauth == Truthy(client_id) /\ Truthy(client_secret)

\* mutant: `if self._oauth` instead of `elif self._oauth`
UsesOAuthIgnoringKey == oauth

\* _headers(): `if self._api_key` ... `elif self._oauth`
UsesApiKey == Truthy(api_key)
UsesOAuth == ~Truthy(api_key) /\ oauth
\* an entry of log: the status received and its Retry-After header; status
\* TRANSPORT for a transport failure of the request, TOKEN_TRANSPORT and
\* TOKEN_RAISED for an iteration that get_token() ended before the request
TRANSPORT == 0
TOKEN_TRANSPORT == -1
TOKEN_RAISED == -2
LogEntry(status, retry_after) == [status |-> status, retry_after |-> retry_after]

\* the dict built by _headers(): a set of auth headers
Header(name, value) == [name |-> name, value |-> value]
NoHeaders == {}
ApiKeyHeader(k) == {Header("X-Api-Key", k)}
BearerHeader(t) == {Header("Authorization: Bearer", t)}

\* tok.answer is what the token endpoint answered, NoAnswer without a POST
NoAnswer == [kind |-> "none", status |-> 0, body |-> TokenBody("garbage", Absent, -1)]
NoTok == [called |-> FALSE, before |-> NoCache, at |-> 0, posted |-> FALSE,
          answer |-> NoAnswer, ret |-> NoResult]

\* a caller of get_token(): position, the time.time() it read, the cache entry
\* whose expires_at it compared, the token endpoint's answer, what it returned
Threads == 1..NumThreads
IdleThread == [pc |-> "idle", t |-> 0, checked |-> NoCache, answer |-> NoAnswer,
               hit |-> FALSE, ret |-> None, gets |-> 0]

\* no _serialize call in progress
NoSer == [stage |-> "none", req |-> <<>>, out |-> <<>>]

\* IntelligentDataClient.__init__: the token manager exists only when both the
\* client id and the client secret are truthy; the cache starts empty
Init ==
  /\ api_key \in ApiKeys
  /\ client_id \in ClientIds
  /\ client_secret \in ClientSecrets
  /\ now = 0
  /\ cache = NoCache
  /\ pc = "idle"
  /\ attempt = 0
  /\ last_err = NoErr
  /\ resp = NoResp
  /\ headers = NoHeaders
  /\ result = NoResult
  /\ log = <<>>
  /\ sleeps = <<>>
  /\ sent = 0
  /\ tokenPosts = 0
  /\ tok = NoTok
  /\ calls = 0
  /\ threads = [T \in Threads |-> IdleThread]
  /\ ser = NoSer

(* --------------------------- _request helpers -------------------------- *)
\* mutant: linear instead of exponential backoff
BackoffLinear(a) == 2 * a

\* 2**attempt
Backoff(a) == 2 ^ a

\* mutant: the final attempt is retried as well
RetriesRemainAlways(a) == a < MAX_RETRIES

\* `attempt < _MAX_RETRIES - 1`
RetriesRemain(a) == a < MAX_RETRIES - 1

\* mutant: the loop runs one iteration too many
InLoopOffByOne(a) == a <= MAX_RETRIES

\* `for attempt in range(_MAX_RETRIES)`: another iteration starts
InLoop(a) == a < MAX_RETRIES

\* mutant: the Retry-After header is not read
RetryAfterIgnoresHeader(r, a) == [ok |-> TRUE, value |-> Backoff(a)]

\* float(resp.headers.get("Retry-After", 2**attempt))
RetryAfter(r, a) ==
  IF r.retry_after = Absent THEN [ok |-> TRUE, value |-> Backoff(a)]
  ELSE Float(r.retry_after)

IsRateLimited(status) == status = 429
IsServerError(status) == status >= 500
IsAuthFailure(status) == status \in {401, 403}
IsClientError(status) == status >= 400

\* time.sleep(d)
Sleep(d) ==
  /\ now' = now + d
  /\ sleeps' = Append(sleeps, d)

\* an exception leaves _request
Raise(e) ==
  /\ result' = Raised(e)
  /\ pc' = "done"

\* `continue`: next iteration of the for loop
Continue ==
  /\ attempt' = attempt + 1
  /\ pc' = "loop"

\* mutant: an error recorded earlier is kept (`last_err = last_err or exc`)
ExceptTransportErrorKeepsFirst(e) ==
  /\ last_err' = (IF last_err # NoErr THEN last_err ELSE e)
  /\ Sleep(Backoff(attempt))
  /\ Continue
  /\ UNCHANGED result

\* except httpx.TransportError as exc: last_err = exc; sleep; continue
ExceptTransportError(e) ==
  /\ last_err' = e
  /\ Sleep(Backoff(attempt))
  /\ Continue
  /\ UNCHANGED result

(* ------------------------------ actions -------------------------------- *)
\* a caller invokes _request(method, path, body)
StartRequest ==
  /\ pc = "idle"
  /\ calls < MaxCalls
  /\ now <= MaxNow
  /\ calls' = calls + 1
  /\ pc' = "loop"
  /\ attempt' = 0
  /\ last_err' = NoErr
  /\ resp' = NoResp
  /\ headers' = NoHeaders
  /\ result' = NoResult
  /\ log' = <<>>
  /\ sleeps' = <<>>
  /\ sent' = 0
  /\ tokenPosts' = 0
  /\ UNCHANGED <<config, now, cache, tok>>
  /\ UNCHANGED aux

\* _headers(): `if self._api_key`
HeadersApiKey ==
  /\ pc = "loop" /\ InLoop(attempt)
  /\ UsesApiKey
  /\ headers' = ApiKeyHeader(api_key)
  /\ pc' = "send"
  /\ resp' = NoResp
  /\ UNCHANGED <<config, now, cache, attempt, last_err, result, log, sleeps,
                 sent, tokenPosts, tok, calls>>
  /\ UNCHANGED aux

\* _headers(): `elif self._oauth`, get_token() runs inside the try block
HeadersOAuth ==
  /\ pc = "loop" /\ InLoop(attempt)
  /\ UsesOAuth
  /\ \E o \in TokenOutcomes :
       LET g == GetToken(cache, now, o, attempt) IN
         /\ cache' = g.cache
         /\ tok' = [called |-> TRUE, before |-> cache, at |-> now,
                    posted |-> g.posted,
                    answer |-> (IF g.posted THEN o ELSE NoAnswer), ret |-> g.ret]
         /\ tokenPosts' = tokenPosts + (IF g.posted THEN 1 ELSE 0)
         /\ IF g.ret.kind = "return"
            THEN /\ headers' = BearerHeader(g.ret.value)
                 /\ pc' = "send"
                 /\ UNCHANGED <<now, attempt, last_err, result, log, sleeps>>
            ELSE IF g.ret.exc.type = "TransportError"
            THEN /\ ExceptTransportError(g.ret.exc)
                 /\ log' = Append(log, LogEntry(TOKEN_TRANSPORT, Absent))
                 /\ UNCHANGED headers
            ELSE /\ Raise(g.ret.exc)
                 /\ log' = Append(log, LogEntry(TOKEN_RAISED, Absent))
                 /\ UNCHANGED <<now, attempt, last_err, headers, sleeps>>
  /\ resp' = NoResp
  /\ UNCHANGED <<config, sent, calls>>
  /\ UNCHANGED aux

\* _headers(): neither credential mode is configured
HeadersNone ==
  /\ pc = "loop" /\ InLoop(attempt)
  /\ ~UsesApiKey /\ ~UsesOAuth
  /\ headers' = NoHeaders
  /\ pc' = "send"
  /\ resp' = NoResp
  /\ UNCHANGED <<config, now, cache, attempt, last_err, result, log, sleeps,
                 sent, tokenPosts, tok, calls>>
  /\ UNCHANGED aux

\* self._http.request raises httpx.TransportError
SendTransportError ==
  /\ pc = "send"
  /\ sent' = sent + 1
  /\ resp' = TransportFailure
  /\ log' = Append(log, LogEntry(TRANSPORT, Absent))
  /\ ExceptTransportError(Foreign("TransportError", attempt))
  /\ UNCHANGED <<config, cache, headers, tokenPosts, tok, calls>>
  /\ UNCHANGED aux

\* a response with status 429
Recv429 ==
  /\ pc = "send"
  /\ \E r \in Outcomes :
       /\ r.kind = "response" /\ IsRateLimited(r.status)
       /\ sent' = sent + 1
       /\ resp' = r
       /\ log' = Append(log, LogEntry(r.status, r.retry_after))
       /\ LET ra == RetryAfter(r, attempt) IN
            IF ~ra.ok
            THEN /\ Raise(Foreign("ValueError", attempt))
                 /\ UNCHANGED <<now, sleeps, attempt>>
            ELSE IF RetriesRemain(attempt)
            THEN /\ Sleep(ra.value)
                 /\ Continue
                 /\ UNCHANGED result
            ELSE /\ IF r.body # "" /\ ~Json(r.body).ok
                    THEN Raise(Foreign("JSONDecodeError", attempt))
                    ELSE Raise(RateLimitError(ra.value,
                                 IF r.body # "" THEN Json(r.body).value ELSE None,
                                 attempt))
                 /\ UNCHANGED <<now, sleeps, attempt>>
  /\ UNCHANGED <<config, cache, last_err, headers, tokenPosts, tok, calls>>
  /\ UNCHANGED aux

\* a response with status >= 500
Recv5xx ==
  /\ pc = "send"
  /\ \E r \in Outcomes :
       /\ r.kind = "response" /\ ~IsRateLimited(r.status) /\ IsServerError(r.status)
       /\ sent' = sent + 1
       /\ resp' = r
       /\ log' = Append(log, LogEntry(r.status, r.retry_after))
       /\ last_err' = ApiError(r.status, r.body, None, attempt)
       /\ IF RetriesRemain(attempt)
          THEN /\ Sleep(Backoff(attempt))
               /\ Continue
               /\ UNCHANGED result
          ELSE /\ Raise(last_err')
               /\ UNCHANGED <<now, sleeps, attempt>>
  /\ UNCHANGED <<config, cache, headers, tokenPosts, tok, calls>>
  /\ UNCHANGED aux

\* data.get("message", d)
DefaultMessage(m, d) == IF m = Absent THEN d ELSE m

\* the exception that `resp.json()` or `data.get(...)` raises on the decoded
\* error body, NoErr when both succeed
BodyFailure(data, at) ==
  IF ~data.ok THEN Foreign("JSONDecodeError", at)
  ELSE IF ~data.is_obj THEN Foreign("AttributeError", at)
  ELSE NoErr

\* a response with status 401 or 403
RecvAuth ==
  /\ pc = "send"
  /\ \E r \in Outcomes :
       /\ r.kind = "response" /\ ~IsRateLimited(r.status) /\ ~IsServerError(r.status)
       /\ IsAuthFailure(r.status)
       /\ sent' = sent + 1
       /\ resp' = r
       /\ log' = Append(log, LogEntry(r.status, r.retry_after))
       /\ LET data == JsonOrEmpty(r.body) IN
            IF BodyFailure(data, attempt) # NoErr
            THEN Raise(BodyFailure(data, attempt))
            ELSE Raise(AuthenticationError(
                         DefaultMessage(data.message, "Authentication failed"),
                         data.value, attempt))
  /\ UNCHANGED <<config, now, cache, attempt, last_err, headers, sleeps,
                 tokenPosts, tok, calls>>
  /\ UNCHANGED aux

\* any other response with status >= 400
Recv4xx ==
  /\ pc = "send"
  /\ \E r \in Outcomes :
       /\ r.kind = "response" /\ ~IsRateLimited(r.status) /\ ~IsServerError(r.status)
       /\ ~IsAuthFailure(r.status) /\ IsClientError(r.status)
       /\ sent' = sent + 1
       /\ resp' = r
       /\ log' = Append(log, LogEntry(r.status, r.retry_after))
       /\ LET data == JsonOrEmpty(r.body) IN
            IF BodyFailure(data, attempt) # NoErr
            THEN Raise(BodyFailure(data, attempt))
            ELSE Raise(ApiError(r.status, DefaultMessage(data.message, "Request failed"),
                                data.value, attempt))
  /\ UNCHANGED <<config, now, cache, attempt, last_err, headers, sleeps,
                 tokenPosts, tok, calls>>
  /\ UNCHANGED aux

\* every remaining response: `return resp.json()`
RecvOther ==
  /\ pc = "send"
  /\ \E r \in Outcomes :
       /\ r.kind = "response" /\ ~IsRateLimited(r.status) /\ ~IsServerError(r.status)
       /\ ~IsAuthFailure(r.status) /\ ~IsClientError(r.status)
       /\ sent' = sent + 1
       /\ resp' = r
       /\ log' = Append(log, LogEntry(r.status, r.retry_after))
       /\ IF Json(r.body).ok
          THEN result' = Returned(Json(r.body).value)
          ELSE result' = Raised(Foreign("JSONDecodeError", attempt))
       /\ pc' = "done"
  /\ UNCHANGED <<config, now, cache, attempt, last_err, headers, sleeps,
                 tokenPosts, tok, calls>>
  /\ UNCHANGED aux

\* the loop is over: `raise last_err or ApiError(0, "Request failed after retries")`
RaiseAfterLoop ==
  /\ pc = "loop" /\ ~InLoop(attempt)
  /\ Raise(IF last_err # NoErr THEN last_err
           ELSE ApiError(0, "Request failed after retries", None, attempt))
  /\ UNCHANGED <<config, now, cache, attempt, last_err, resp, headers, log,
                 sleeps, sent, tokenPosts, tok, calls>>
  /\ UNCHANGED aux

\* the call is over: its locals are gone, the client and its cache remain
Finish ==
  /\ pc = "done"
  /\ pc' = "idle"
  /\ attempt' = 0
  /\ last_err' = NoErr
  /\ resp' = NoResp
  /\ headers' = NoHeaders
  /\ result' = NoResult
  /\ log' = <<>>
  /\ sleeps' = <<>>
  /\ sent' = 0
  /\ tokenPosts' = 0
  /\ tok' = NoTok
  /\ UNCHANGED <<config, now, cache, calls>>
  /\ UNCHANGED aux

\* time passes between calls
Tick ==
  /\ pc = "idle"
  /\ now < MaxNow
  /\ now' = now + 1
  /\ UNCHANGED <<config, cache, pc, attempt, last_err, resp, headers, result,
                 log, sleeps, sent, tokenPosts, tok, calls>>
  /\ UNCHANGED aux

Next ==
  \/ StartRequest
  \/ HeadersApiKey
  \/ HeadersOAuth
  \/ HeadersNone
  \/ SendTransportError
  \/ Recv429
  \/ Recv5xx
  \/ RecvAuth
  \/ Recv4xx
  \/ RecvOther
  \/ RaiseAfterLoop
  \/ Finish
  \/ Tick

Spec == Init /\ [][Next]_vars

TypeOK ==
  /\ pc \in {"idle", "loop", "send", "done"}
  /\ attempt \in 0..MAX_RETRIES
  /\ sent \in 0..MAX_RETRIES
  /\ Len(sleeps) <= MAX_RETRIES

(* ---------------- get_token() called from several threads -------------- *)
\* get_token has no lock: between any two of its reads and writes of
\* self._cache another thread may run.  Each action is one such step.

\* the POST of get_token and what follows it, without the cache check
FetchToken(t, o) == GetToken(NoCache, t, o, 0)

SetThread(T, r) == threads' = [threads EXCEPT ![T] = r]

\* get_token calls started so far by threads 1..n
RECURSIVE GetsUpTo(_)
GetsUpTo(n) == IF n = 0 THEN 0 ELSE threads[n].gets + GetsUpTo(n - 1)

\* a thread calls get_token()
GtCall(T) ==
  /\ threads[T].pc = "idle"
  /\ GetsUpTo(NumThreads) < MaxGets
  /\ SetThread(T, [IdleThread EXCEPT !.pc = "check", !.gets = threads[T].gets + 1])
  /\ UNCHANGED <<config, callVars, ser>>

\* `self._cache and ...`: the truthiness test reads self._cache
GtCheckCache(T) ==
  /\ threads[T].pc = "check"
  /\ SetThread(T, [threads[T] EXCEPT !.pc = IF cache = NoCache THEN "post" ELSE "time"])
  /\ UNCHANGED <<config, callVars, ser>>

\* `time.time()`, the left operand of the comparison
GtReadTime(T) ==
  /\ threads[T].pc = "time"
  /\ SetThread(T, [threads[T] EXCEPT !.pc = "expiry", !.t = now])
  /\ UNCHANGED <<config, callVars, ser>>

\* `< self._cache.expires_at - 30`: reads self._cache a second time
GtCheckExpiry(T) ==
  /\ threads[T].pc = "expiry"
  /\ SetThread(T, [threads[T] EXCEPT
                     !.checked = cache,
                     !.pc = IF threads[T].t < cache.expires_at - MARGIN
                            THEN "hit" ELSE "post"])
  /\ UNCHANGED <<config, callVars, ser>>

\* `return self._cache.access_token`: reads self._cache a third time
GtReturnCached(T) ==
  /\ threads[T].pc = "hit"
  /\ SetThread(T, [threads[T] EXCEPT !.pc = "returned", !.hit = TRUE,
                                     !.ret = cache.access_token])
  /\ UNCHANGED <<config, callVars, ser>>

\* the POST, raise_for_status() and resp.json()
GtPost(T) ==
  /\ threads[T].pc = "post"
  /\ \E o \in TokenOutcomes :
       IF FetchToken(now, o).ret.kind = "return"
       THEN SetThread(T, [threads[T] EXCEPT !.answer = o, !.pc = "store"])
       ELSE SetThread(T, [threads[T] EXCEPT !.pc = "raised"])
  /\ UNCHANGED <<config, callVars, ser>>

\* `self._cache = _TokenCache(...)`: one assignment of a finished object
GtStore(T) ==
  /\ threads[T].pc = "store"
  /\ cache' = FetchToken(now, threads[T].answer).cache
  /\ SetThread(T, [threads[T] EXCEPT !.pc = "fresh"])
  /\ UNCHANGED <<config, now, pc, attempt, last_err, resp, headers, result, log,
                 sleeps, sent, tokenPosts, tok, calls, ser>>

\* `return self._cache.access_token` after the refresh
GtReturnFresh(T) ==
  /\ threads[T].pc = "fresh"
  /\ SetThread(T, [threads[T] EXCEPT !.pc = "returned", !.ret = cache.access_token])
  /\ UNCHANGED <<config, callVars, ser>>

\* the caller has the token or the exception
GtDone(T) ==
  /\ threads[T].pc \in {"returned", "raised"}
  /\ SetThread(T, [IdleThread EXCEPT !.gets = threads[T].gets])
  /\ UNCHANGED <<config, callVars, ser>>

\* a client in OAuth2 mode whose token manager is shared by the threads
InitConc ==
  /\ Init
  /\ api_key = None
  /\ client_id = "id"
  /\ client_secret = "secret"

NextConc ==
  \/ \E T \in Threads : GtCall(T)
  \/ \E T \in Threads : GtCheckCache(T)
  \/ \E T \in Threads : GtReadTime(T)
  \/ \E T \in Threads : GtCheckExpiry(T)
  \/ \E T \in Threads : GtReturnCached(T)
  \/ \E T \in Threads : GtPost(T)
  \/ \E T \in Threads : GtStore(T)
  \/ \E T \in Threads : GtReturnFresh(T)
  \/ \E T \in Threads : GtDone(T)
  \/ Tick

SpecConc == InitConc /\ [][NextConc]_vars

(* ----------------------------- _serialize ------------------------------ *)
\* strings are sequences of one-character strings, so that _to_camel can be
\* computed on them
Lowers == <<"a", "c", "d", "e", "i", "l", "n", "o", "p", "r", "s", "t", "u", "x", "y">>
Uppers == <<"A", "C", "D", "E", "I", "L", "N", "O", "P", "R", "S", "T", "U", "X", "Y">>

\* str.upper() and str.lower() on one character
Upper(c) ==
  IF \E i \in 1..Len(Lowers) : Lowers[i] = c
  THEN Uppers[CHOOSE i \in 1..Len(Lowers) : Lowers[i] = c] ELSE c
Lower(c) ==
  IF \E i \in 1..Len(Uppers) : Uppers[i] = c
  THEN Lowers[CHOOSE i \in 1..Len(Uppers) : Uppers[i] = c] ELSE c

\* w.capitalize(): first character upper case, the rest lower case
Capitalize(w) == [i \in 1..Len(w) |-> IF i = 1 THEN Upper(w[i]) ELSE Lower(w[i])]

\* name.split("_"): the parts between underscores, empty parts included
RECURSIVE Split(_)
Split(name) ==
  IF \A i \in 1..Len(name) : name[i] # "_" THEN <<name>>
  ELSE LET k == CHOOSE i \in 1..Len(name) :
                  name[i] = "_" /\ \A j \in 1..(i - 1) : name[j] # "_"
       IN <<SubSeq(name, 1, k - 1)>> \o Split(SubSeq(name, k + 1, Len(name)))

\* "".join(w.capitalize() for w in parts)
RECURSIVE JoinCapitalized(_)
JoinCapitalized(parts) ==
  IF parts = <<>> THEN <<>>
  ELSE Capitalize(Head(parts)) \o JoinCapitalized(Tail(parts))

\* mutant: the first part is capitalised too (PascalCase)
ToCamelPascal(name) == JoinCapitalized(Split(name))

\* _to_camel(name): parts[0] + "".join(w.capitalize() for w in parts[1:])
ToCamel(name) ==
  LET parts == Split(name) IN Head(parts) \o JoinCapitalized(Tail(parts))

\* field values: a str or an int (the dataclasses do not enforce `str`)
StrVal(x) == [type |-> "str", s |-> x, n |-> 0]
IntVal(k) == [type |-> "int", s |-> "", n |-> k]
FieldValues == {StrVal(""), StrVal("NY"), StrVal("0"), IntVal(0), IntVal(7)}

\* mutant: only the empty string is left out
KeptUnlessEmpty(v) == ~(v.type = "str" /\ v.s = "")

\* `v != "" and v != 0`
Kept(v) == ~(v.type = "str" /\ v.s = "") /\ ~(v.type = "int" /\ v.n = 0)

\* field names of TaxIdRequest and AddressRequest, in declaration order
TaxIdFields ==
  << <<"t", "a", "x", "_", "i", "d">>,
     <<"c", "o", "u", "n", "t", "r", "y">>,
     <<"t", "a", "x", "_", "i", "d", "_", "t", "y", "p", "e">> >>
AddressFields ==
  << <<"a", "d", "d", "r", "e", "s", "s", "_", "l", "i", "n", "e", "1">>,
     <<"c", "i", "t", "y">>,
     <<"c", "o", "u", "n", "t", "r", "y">>,
     <<"a", "d", "d", "r", "e", "s", "s", "_", "l", "i", "n", "e", "2">>,
     <<"s", "t", "a", "t", "e">>,
     <<"p", "o", "s", "t", "a", "l", "_", "c", "o", "d", "e">> >>

\* asdict(obj): the (name, value) items in field order
Items(fields, values) == [i \in 1..Len(fields) |-> [name |-> fields[i], value |-> values[i]]]
Requests ==
  {Items(TaxIdFields, v) : v \in [1..Len(TaxIdFields) -> FieldValues]}
    \cup {Items(AddressFields, v) : v \in [1..Len(AddressFields) -> FieldValues]}

\* {_to_camel(k): v for k, v in raw.items() if v != "" and v != 0}: a later
\* item with the same key replaces an earlier one
Serialize(raw) ==
  LET kept == {i \in 1..Len(raw) : Kept(raw[i].value)}
      keys == {ToCamel(raw[i].name) : i \in kept}
      last(k) == CHOOSE i \in kept :
                   /\ ToCamel(raw[i].name) = k
                   /\ \A j \in kept : ToCamel(raw[j].name) = k => j <= i
  IN [k \in keys |-> raw[last(k)].value]

\* an operation method is called with a request object
InitSer ==
  /\ Init
  /\ api_key = "svm-key"
  /\ client_id = None
  /\ client_secret = None

GiveRequest ==
  /\ ser.stage = "none"
  /\ \E r \in Requests : ser' = [stage |-> "given", req |-> r, out |-> <<>>]
  /\ UNCHANGED <<config, callVars, threads>>

\* _serialize(req)
SerializeRequest ==
  /\ ser.stage = "given"
  /\ ser' = [ser EXCEPT !.stage = "done", !.out = Serialize(ser.req)]
  /\ UNCHANGED <<config, callVars, threads>>

NextSer ==
  \/ GiveRequest
  \/ SerializeRequest

SpecSer == InitSer /\ [][NextSer]_vars

(* ------------------------------ claims --------------------------------- *)
\* 0-based index of the iteration whose outcome is the last entry of log
RecvAttempt == Len(log) - 1

Received(statuses) == resp.kind = "response" /\ resp.status \in statuses

RetryableStatus(st) == st \in {TRANSPORT, TOKEN_TRANSPORT, 429} \/ st >= 500

\* C1: whatever the attempts' outcomes are, one logical call sends at most 3
\* requests to the resource endpoint (1 initial + 2 retries); no request is
\* prepared once 3 were sent, and the call ends with a returned body or a
\* raised error.
C1_AtMostThreeRequests ==
  /\ sent <= 3
  /\ Len(log) <= 3
  /\ pc = "send" => sent < 3
  /\ pc = "done" => result.kind \in {"return", "raise"}

C1_Witness == pc = "done" /\ sent = 3 /\ result.kind = "raise"

\* C2: an attempt that receives 401 or 403, on any attempt index, makes the
\* call fail at once with AuthenticationError; no request and no sleep follow.
C2_AuthFailsImmediately ==
  Received({401, 403}) =>
    /\ pc = "done"
    /\ result.kind = "raise"
    /\ result.exc.type = "AuthenticationError"
    /\ Len(sleeps) = RecvAttempt

\* C3: an attempt that receives a status in 400..499 other than 401, 403 and
\* 429 makes the call fail at once with an ApiError carrying that status; it
\* is not retried and no sleep follows.
C3_ClientErrorFailsImmediately ==
  Received((400..499) \ {401, 403, 429}) =>
    /\ pc = "done"
    /\ result.kind = "raise"
    /\ result.exc.type = "ApiError"
    /\ result.exc.status_code = resp.status
    /\ Len(sleeps) = RecvAttempt

\* the delay the spec assigns to a 429 received in iteration a
SpecDelay(r, a) ==
  IF r.retry_after # Absent /\ Float(r.retry_after).ok
  THEN Float(r.retry_after).value
  ELSE 2 ^ a

\* C4: a 429 raises RateLimitError only on the final (third) attempt; while
\* attempts remain it is followed by a sleep and another attempt. Three
\* consecutive 429 responses yield RateLimitError with the retry-after value of
\* the last response, after exactly 2 sleeps.
C4_RateLimitOnlyOnFinalAttempt ==
  Received({429}) =>
    IF RecvAttempt < 2
    THEN /\ pc = "loop" /\ attempt = RecvAttempt + 1
         /\ Len(sleeps) = RecvAttempt + 1
    ELSE /\ pc = "done"
         /\ result.kind = "raise"
         /\ result.exc.type = "RateLimitError"
         /\ (\A i \in 1..3 : log[i].status = 429) =>
              /\ result.exc.retry_after = SpecDelay(resp, 2)
              /\ Len(sleeps) = 2

C6_RetryAfterFallback ==
  Received({429}) =>
    /\ RecvAttempt < 2 =>
         /\ pc = "loop"
         /\ sleeps # <<>> /\ sleeps[Len(sleeps)] = SpecDelay(resp, RecvAttempt)
    /\ RecvAttempt = 2 =>
         /\ result.exc.type # "ValueError"
         /\ result.exc.type = "RateLimitError" =>
              result.exc.retry_after = SpecDelay(resp, RecvAttempt)

\* C7: a status >= 500 in iteration a is retried after a sleep of 2^a while
\* attempts remain; on the final attempt the call raises an ApiError with the
\* status code and body of that last response and does not sleep after it.
\* Three consecutive 5xx responses sleep exactly 1s then 2s.
C7_ServerErrorBackoff ==
  /\ (resp.kind = "response" /\ resp.status >= 500) =>
       IF RecvAttempt < 2
       THEN /\ pc = "loop" /\ attempt = RecvAttempt + 1
            /\ Len(sleeps) = RecvAttempt + 1
            /\ sleeps[Len(sleeps)] = 2 ^ RecvAttempt
       ELSE /\ pc = "done"
            /\ result.kind = "raise"
            /\ result.exc.type = "ApiError"
            /\ result.exc.status_code = resp.status
            /\ result.exc.message = resp.body
            /\ result.exc.at = 2
            /\ Len(sleeps) = 2
  /\ (Len(log) = 3 /\ \A i \in 1..3 : log[i].status >= 500) => sleeps = <<1, 2>>

C7_Witness ==
  /\ pc = "done"
  /\ Len(log) = 3 /\ \A i \in 1..3 : log[i].status >= 500
  /\ log[2].status # log[3].status
  /\ result.exc.type = "ApiError" /\ result.exc.status_code = log[3].status
  /\ resp.body # ""

\* C8: when the final (third) attempt ends in a transport failure, whatever
\* retryable outcomes the first two attempts had, the call raises the transport
\* failure of that final attempt and not an error recorded earlier.
C8_FinalTransportFailureSurfaces ==
  (/\ pc = "done"
   /\ Len(log) = 3
   /\ log[3].status \in {TRANSPORT, TOKEN_TRANSPORT}) =>
    result = Raised(Foreign("TransportError", 2))

C8_Witness ==
  /\ pc = "done"
  /\ Len(log) = 3
  /\ log[1].status >= 500
  /\ log[2].status = TRANSPORT
  /\ log[3].status = TRANSPORT
  /\ result.exc.type = "TransportError"

\* C9: backoff sleeps happen only between attempts: a call sleeps at most
\* twice and never after its final attempt.
C9_SleepsOnlyBetweenAttempts ==
  /\ Len(sleeps) <= 2
  /\ pc = "done" => Len(sleeps) <= Len(log) - 1

\* C10: a cache hit is free of side effects: get_token called with a cached
\* token while now < expires_at - 30 returns the cached access token, does not
\* call the token endpoint and leaves the cache as it was.
C10_CacheHitNoSideEffects ==
  (/\ tok.called
   /\ tok.before # NoCache
   /\ tok.at < tok.before.expires_at - 30) =>
    /\ tok.ret = Returned(tok.before.access_token)
    /\ ~tok.posted
    /\ cache = tok.before
    /\ headers = BearerHeader(tok.before.access_token)

C10_Witness ==
  /\ tok.called
  /\ tok.before # NoCache
  /\ tok.at = tok.before.expires_at - 31
  /\ tok.ret.kind = "return"
  /\ ~tok.posted
  /\ pc = "send"

\* the token endpoint's answer recorded in tok is a usable token response
GoodAnswer(a) ==
  /\ a.kind = "response"
  /\ a.status \in 200..299
  /\ a.body.form = "object"
  /\ a.body.access_token # Absent

\* C11: get_token never returns a cached token outside the safety margin:
\* with no cached token or now >= expires_at - 30 (the boundary included) it
\* POSTs to the token endpoint and, on success, returns the access token of
\* that response and replaces the cache with it.
C11_RefreshOutsideMargin ==
  (/\ tok.called
   /\ \/ tok.before = NoCache
      \/ tok.at >= tok.before.expires_at - 30) =>
    /\ tok.posted
    /\ GoodAnswer(tok.answer) =>
         /\ tok.ret = Returned(tok.answer.body.access_token)
         /\ cache.access_token = tok.answer.body.access_token
         /\ cache.expires_at =
              tok.at + (IF tok.answer.body.expires_in = -1 THEN 3600
                        ELSE tok.answer.body.expires_in)
         /\ pc = "send" => headers = BearerHeader(tok.answer.body.access_token)

C11_Witness ==
  /\ tok.called
  /\ tok.before # NoCache
  /\ tok.at = tok.before.expires_at - 30
  /\ tok.posted
  /\ tok.ret.kind = "return"
  /\ tok.ret.value # tok.before.access_token
  /\ cache.access_token = tok.ret.value

\* C12: in OAuth2 mode, when the token endpoint answers non-2xx, or the token
\* call still fails with a transport failure on the last attempt, the error
\* that reaches the caller is an AuthenticationError.
C12_TokenFailureIsAuthError ==
  /\ (/\ tok.called
      /\ tok.answer.kind = "response"
      /\ tok.answer.status \notin 200..299) =>
       /\ pc = "done"
       /\ result.exc.type = "AuthenticationError"
  /\ (/\ pc = "done"
      /\ Len(log) = 3
      /\ log[3].status = TOKEN_TRANSPORT) =>
       result.exc.type = "AuthenticationError"

\* C13: a 4xx answer of the token endpoint is never retried: the call ends at
\* once with the failure; no token call, no request to the resource endpoint
\* and no sleep follow it.
C13_Token4xxNotRetried ==
  (/\ tok.called
   /\ tok.answer.kind = "response"
   /\ tok.answer.status \in 400..499) =>
    /\ pc = "done"
    /\ result.kind = "raise"
    /\ result.exc.at = Len(log) - 1
    /\ log[Len(log)].status = TOKEN_RAISED
    /\ Len(sleeps) = Len(log) - 1
    /\ sent = Cardinality({i \in 1..(Len(log) - 1) : log[i].status >= 0})
    /\ tokenPosts <= Len(log)

C13_Witness ==
  /\ tok.called
  /\ tok.answer.kind = "response"
  /\ tok.answer.status = 401
  /\ pc = "done"
  /\ Len(log) = 2
  /\ log[1].status = 503
  /\ sent = 1

KeyConfigured == api_key \notin {None, ""}
OAuthConfigured == client_id \notin {None, ""} /\ client_secret \notin {None, ""}
HasHeader(name) == \E h \in headers : h.name = name

\* C14: every outbound request carries at most one auth header: X-Api-Key
\* exactly when an API key is configured, Authorization: Bearer exactly when
\* no API key but OAuth2 (client id and secret) is configured, none otherwise;
\* with an API key configured the token endpoint is never called.
C14_OneAuthHeader ==
  /\ pc = "send" =>
       /\ Cardinality(headers) <= 1
       /\ HasHeader("X-Api-Key") <=> KeyConfigured
       /\ HasHeader("Authorization: Bearer") <=> (~KeyConfigured /\ OAuthConfigured)
       /\ \A h \in headers : h.name = "X-Api-Key" => h.value = api_key
  /\ KeyConfigured => (~tok.called /\ tokenPosts = 0 /\ cache = NoCache)

C14_Witness ==
  /\ pc = "send"
  /\ KeyConfigured
  /\ OAuthConfigured
  /\ headers = {Header("X-Api-Key", api_key)}
  /\ attempt = 1

\* C15: under any interleaving of concurrent get_token calls the cache is
\* never torn (its access token and expiry come from one token response), and
\* every token returned on the cache-hit path is the access token of the cache
\* entry whose expires_at passed the check.
C15_CacheHitReturnsCheckedEntry ==
  /\ \/ cache = NoCache
     \/ \E b \in TokenBodies, t \in 0..MaxNow :
          /\ b.access_token # Absent
          /\ cache = TokenCache(b.access_token, t + ExpiresIn(b))
  /\ \A T \in Threads :
       (threads[T].pc = "returned" /\ threads[T].hit) =>
         threads[T].ret = threads[T].checked.access_token

\* the message the error classes use when the body offers none
DefaultMessageOf(status) ==
  IF status \in {401, 403} THEN "Authentication failed"
  ELSE IF status = 429 THEN "Rate limit exceeded"
  ELSE "Request failed"

\* C16: the error path never fails on the error body: a 401/403, another 4xx
\* or a final 429 still raises its classified error, with the default message
\* when the body is empty, has no message or is not a JSON object.
C16_ErrorPathNeverFailsOnBody ==
  (/\ pc = "done"
   /\ Received(400..499)
   /\ resp.status = 429 => (RecvAttempt = 2 /\ resp.retry_after = Absent)) =>
    /\ result.kind = "raise"
    /\ result.exc.type =
         (IF resp.status \in {401, 403} THEN "AuthenticationError"
          ELSE IF resp.status = 429 THEN "RateLimitError"
          ELSE "ApiError")
    /\ resp.body # "{\"message\":\"denied\"}" =>
         result.exc.message = DefaultMessageOf(resp.status)

\* the wire names of TaxIdRequest and AddressRequest
TaxIdWire ==
  << <<"t", "a", "x", "I", "d">>,
     <<"c", "o", "u", "n", "t", "r", "y">>,
     <<"t", "a", "x", "I", "d", "T", "y", "p", "e">> >>
AddressWire ==
  << <<"a", "d", "d", "r", "e", "s", "s", "L", "i", "n", "e", "1">>,
     <<"c", "i", "t", "y">>,
     <<"c", "o", "u", "n", "t", "r", "y">>,
     <<"a", "d", "d", "r", "e", "s", "s", "L", "i", "n", "e", "2">>,
     <<"s", "t", "a", "t", "e">>,
     <<"p", "o", "s", "t", "a", "l", "C", "o", "d", "e">> >>
WireOf(req) == IF Len(req) = Len(TaxIdFields) THEN TaxIdWire ELSE AddressWire

\* C17: _serialize yields an object that has a field, under its camelCase
\* wire name, exactly when the field's value is neither the empty string nor
\* numeric zero; an empty string is absent, every other value is present
\* unchanged, and there are no other keys.
C17_SerializeOmitsDefaults ==
  ser.stage = "done" =>
    /\ \A i \in 1..Len(ser.req) :
         LET v == ser.req[i].value
             w == WireOf(ser.req)[i]
         IN /\ (w \in DOMAIN ser.out) <=> (v # StrVal("") /\ v # IntVal(0))
            /\ (w \in DOMAIN ser.out) => ser.out[w] = v
    /\ \A k \in DOMAIN ser.out : \E i \in 1..Len(ser.req) : k = WireOf(ser.req)[i]

C17_Witness ==
  /\ ser.stage = "done"
  /\ Len(ser.req) = Len(AddressFields)
  /\ ser.req[1].value = StrVal("NY")
  /\ ser.req[4].value = StrVal("")
  /\ ser.req[6].value = IntVal(0)
  /\ AddressWire[1] \in DOMAIN ser.out
  /\ AddressWire[4] \notin DOMAIN ser.out
  /\ AddressWire[6] \notin DOMAIN ser.out

\* C18: the fallback ApiError(0, "Request failed after retries") is
\* unreachable: whenever the loop ends without a return or raise inside it, a
\* pending error has been recorded, so no call ends with the status-0 ApiError.
C18_FallbackUnreachable ==
  /\ (pc = "loop" /\ attempt = 3) => last_err # NoErr
  /\ pc = "done" =>
       ~(result.kind = "raise" /\ result.exc.type = "ApiError"
         /\ result.exc.status_code = 0)

C18_Witness ==
  /\ pc = "done"
  /\ attempt = 3
  /\ Len(log) = 3
  /\ log[1].status = 429
  /\ log[2].status = 429
  /\ log[3].status = TRANSPORT
  /\ result.exc.type = "TransportError"

\* C19: _request returns a body as success only for a status in 200..299; a
\* response with any other status never makes the call return a value.
C19_ReturnsOnlyFor2xx ==
  (pc = "done" /\ result.kind = "return") =>
    (resp.kind = "response" /\ resp.status \in 200..299)

\* C20: a failed token refresh leaves the cache unchanged: after a transport
\* failure, a non-2xx answer or an answer without access_token the cache holds
\* what it held before the call.
C20_FailedRefreshKeepsCache ==
  (tok.called /\ tok.posted /\ ~GoodAnswer(tok.answer)) =>
    /\ tok.ret.kind = "raise"
    /\ cache = tok.before

C20_Witness ==
  /\ tok.called
  /\ tok.posted
  /\ tok.before # NoCache
  /\ tok.answer.kind = "response"
  /\ tok.answer.status = 200
  /\ tok.answer.body.access_token = Absent
  /\ tok.ret.kind = "raise"
  /\ cache = tok.before

====
